---------------------------- MODULE Spec2Model ----------------------------
(***************************************************************************)
(* Model of github.com/jordanfitz/thumbnailer: the dimension scaler, the   *)
(* option builder (New / With over Go slices), the Create pipeline and the *)
(* command-line driver (PreRunE / Validate / execute).                     *)
(***************************************************************************)
EXTENDS Integers, Sequences, FiniteSets, TLC

VARIABLES
    sdIn,       \* arguments (maxSize, width, height) of a scaleDimensions call
    sdOut,      \* its return value (newWidth, newHeight), once it has returned
    live,       \* the builder variables of the calling program that hold a value
    builders,   \* the Thumbnailer value of each builder variable
    heap,       \* backing arrays of the option slices, by allocation order
    logical,    \* history: the options handed to New and With for each builder
    results,    \* what the last Create on each builder returned
    lastOp,     \* the library call made last
    cli         \* the command-line tool: flags, file system, position, effects

vars == <<sdIn, sdOut, live, builders, heap, logical, results, lastOp, cli>>

(***************************************************************************)
(* Bounds of the model.                                                    *)
(***************************************************************************)
MaxDim == 10         \* largest width, height and |maxSize| of a scaling call
MaxArrays == 2       \* backing arrays allocated in one run of the builder model
MaxOpts == 4         \* longest option list built in the builder model
MaxNewOpts == 2      \* most options passed to New in the builder model
MaxTemplateOpts == 1 \* most options passed to New in the pipeline model
MaxFiles == 2        \* most input files on the command line

(***************************************************************************)
(* Program constants.                                                      *)
(***************************************************************************)
OriginalFormat == 0
JPG == 1
PNG == 2
DefaultMaxSize == 300
DefaultQuality == 75
formatJPG == "jpeg"
formatPNG == "png"

(***************************************************************************)
(* Dimension scaler.  The ratios are float64 quotients of two ints; they   *)
(* are kept as exact fractions <<num, den>> with den > 0.  For operands of *)
(* magnitude up to 12 the float64 evaluation of the code and the exact     *)
(* evaluation agree on every input, ties included.                         *)
(***************************************************************************)
MinRatio(a, b) == IF a[1] * b[2] <= b[1] * a[2] THEN a ELSE b

MaxRatio(a, b) == IF a[1] * b[2] >= b[1] * a[2] THEN a ELSE b

\* math.Round of num/den: nearest integer, halves away from zero.
RoundTrunc(num, den) ==
    IF num >= 0 THEN num \div den ELSE -((-num) \div den)

Round(num, den) ==
    IF num >= 0 THEN (2 * num + den) \div (2 * den)
                ELSE -((2 * (-num) + den) \div (2 * den))

scaleDimensionsLargest(maxSize, width, height) ==
    LET hRatio == IF width > maxSize THEN <<maxSize, width>> ELSE <<1, 1>>
        vRatio == IF height > maxSize THEN <<maxSize, height>> ELSE <<1, 1>>
        scale == MaxRatio(hRatio, vRatio)
    IN  IF scale[1] = scale[2]
        THEN <<width, height>>
        ELSE <<Round(width * scale[1], scale[2]),
               Round(height * scale[1], scale[2])>>

scaleDimensionsAlways(maxSize, width, height) ==
    LET hRatio == <<maxSize, width>>
        vRatio == <<maxSize, height>>
        scale == MinRatio(hRatio, vRatio)
    IN  <<Round(width * scale[1], scale[2]),
          Round(height * scale[1], scale[2])>>

scaleDimensions(maxSize, width, height) ==
    LET hRatio == IF width > maxSize THEN <<maxSize, width>> ELSE <<1, 1>>
        vRatio == IF height > maxSize THEN <<maxSize, height>> ELSE <<1, 1>>
        scale == MinRatio(hRatio, vRatio)
    IN  IF scale[1] = scale[2]
        THEN <<width, height>>
        ELSE <<Round(width * scale[1], scale[2]),
               Round(height * scale[1], scale[2])>>

(***************************************************************************)
(* Source bytes.  A byte string is named by a number; SourceTable says     *)
(* what image.Decode makes of it.  0 is the nil slice of a builder that    *)
(* never got an Image option, 1 is text that is no image.  "gif" stands    *)
(* for a format whose decoder the calling program registered itself.       *)
(***************************************************************************)
NoBytes == 0

SourceTable ==
    <<[ok |-> FALSE, format |-> "",        w |-> 0, h |-> 0],
      [ok |-> TRUE,  format |-> formatPNG, w |-> 3, h |-> 2],
      [ok |-> TRUE,  format |-> formatJPG, w |-> 2, h |-> 4],
      [ok |-> TRUE,  format |-> "gif",     w |-> 1, h |-> 1]>>

SourceIds == 1..Len(SourceTable)

\* image.Decode(bytes.NewReader(t.img))
Decode(img) ==
    IF img = NoBytes
    THEN [ok |-> FALSE, format |-> "", w |-> 0, h |-> 0]
    ELSE SourceTable[img]

(***************************************************************************)
(* Options.  An Option is a closure over one value; it is modelled by the  *)
(* name of its constructor and the captured value.  Scalers are named by   *)
(* 1..4 (NearestNeighbor, ApproxBiLinear, BiLinear, CatmullRom).           *)
(***************************************************************************)
ApproxBiLinear == 2

NilOption == [kind |-> "nil", val |-> 0]

Image(value) == [kind |-> "Image", val |-> value]

MaxSize(value) == [kind |-> "MaxSize", val |-> value]

Quality(value) == [kind |-> "Quality", val |-> value]

OutFormat(value) ==
    [kind |-> "OutFormat", val |-> IF value > PNG THEN OriginalFormat ELSE value]

Scaler(value) == [kind |-> "Scaler", val |-> value]

\* option(&t): the body of the closure each constructor returns.
ApplyOption(o, t) ==
    CASE o.kind = "Image"     -> [t EXCEPT !.img = o.val]
      [] o.kind = "MaxSize"   -> [t EXCEPT !.maxSize = o.val]
      [] o.kind = "Quality"   -> [t EXCEPT !.jpgQuality = o.val]
      [] o.kind = "OutFormat" -> [t EXCEPT !.outFormat = o.val]
      [] o.kind = "Scaler"    -> [t EXCEPT !.scaler = o.val]
      [] OTHER                -> t

(***************************************************************************)
(* Go slices.  A slice is (array, len, cap); all slices here start at      *)
(* element 1 of their array.  The heap is the sequence of arrays allocated *)
(* so far, each as long as its capacity, unwritten elements being nil.     *)
(***************************************************************************)
NilSlice == [arr |-> 0, len |-> 0, cap |-> 0]

\* The elements a slice shows: array[0:len].
SliceElems(s, h) == [i \in 1..s.len |-> h[s.arr][i]]

\* Capacity append gives a full slice of pointer-sized elements.
GrowCap(oldCap) == IF oldCap = 0 THEN 1 ELSE 2 * oldCap

\* append(s, o): in place when cap(s) > len(s), else into a new array.
append(s, o, h) ==
    IF s.len < s.cap
    THEN [slice |-> [s EXCEPT !.len = s.len + 1],
          heap  |-> [h EXCEPT ![s.arr][s.len + 1] = o]]
    ELSE LET newCap == GrowCap(s.cap)
             newArr == [i \in 1..newCap |->
                          IF i <= s.len THEN h[s.arr][i]
                          ELSE IF i = s.len + 1 THEN o ELSE NilOption]
         IN  [slice |-> [arr |-> Len(h) + 1, len |-> s.len + 1, cap |-> newCap],
              heap  |-> Append(h, newArr)]

\* The slice of a variadic parameter: nil without arguments, else a fresh
\* array exactly as long as the argument list.
VariadicSlice(options, h) ==
    IF Len(options) = 0
    THEN [slice |-> NilSlice, heap |-> h]
    ELSE [slice |-> [arr |-> Len(h) + 1, len |-> Len(options), cap |-> Len(options)],
          heap  |-> Append(h, options)]

(***************************************************************************)
(* The builder.                                                            *)
(***************************************************************************)
New(options, h) ==
    LET v == VariadicSlice(options, h)
    IN  [t |-> [scaler     |-> ApproxBiLinear,
                img        |-> NoBytes,
                options    |-> v.slice,
                maxSize    |-> DefaultMaxSize,
                jpgQuality |-> DefaultQuality,
                outFormat  |-> OriginalFormat],
         heap |-> v.heap]

With(t, o, h) ==
    LET a == append(t.options, o, h)
    IN  [t |-> [t EXCEPT !.options = a.slice], heap |-> a.heap]

(***************************************************************************)
(* The pipeline.  An encoded image is recorded by what decoding it would   *)
(* show: format, size and, for a JPEG, the quality it was encoded with.    *)
(* NilBytes is the nil byte slice, "" the nil error.                       *)
(***************************************************************************)
NilBytes == [format |-> OriginalFormat, w |-> 0, h |-> 0, quality |-> 0]

Abs(n) == IF n < 0 THEN -n ELSE n

\* image.Rect(0, 0, x1, y1): coordinates are swapped to make it well formed.
Rect(x1, y1) ==
    [minX |-> IF x1 < 0 THEN x1 ELSE 0, maxX |-> IF x1 < 0 THEN 0 ELSE x1,
     minY |-> IF y1 < 0 THEN y1 ELSE 0, maxY |-> IF y1 < 0 THEN 0 ELSE y1]

Dx(r) == r.maxX - r.minX

Dy(r) == r.maxY - r.minY

\* jpeg.Encode clamps the quality to 1..100 and refuses only sides >= 1<<16.
ClampQuality(q) == IF q < 1 THEN 1 ELSE IF q > 100 THEN 100 ELSE q

encodeJPG(t, rect) ==
    IF Dx(rect) >= 65536 \/ Dy(rect) >= 65536
    THEN [bytes |-> NilBytes, err |-> "encode"]
    ELSE [bytes |-> [format |-> JPG, w |-> Dx(rect), h |-> Dy(rect),
                     quality |-> ClampQuality(t.jpgQuality)],
          err |-> ""]

\* png.Encode refuses an image with an empty side.
encodePNGPartial(t, rect) ==
    [bytes |-> [format |-> PNG, w |-> Dx(rect), h |-> Dy(rect), quality |-> 0],
     err |-> IF Dx(rect) <= 0 \/ Dy(rect) <= 0 THEN "encode" ELSE ""]

encodePNG(t, rect) ==
    IF Dx(rect) <= 0 \/ Dy(rect) <= 0
    THEN [bytes |-> NilBytes, err |-> "encode"]
    ELSE [bytes |-> [format |-> PNG, w |-> Dx(rect), h |-> Dy(rect), quality |-> 0],
          err |-> ""]

encode(t, rect) ==
    CASE t.outFormat = JPG -> encodeJPG(t, rect)
      [] t.outFormat = PNG -> encodePNG(t, rect)
      [] OTHER -> [bytes |-> NilBytes, err |-> "unexpected output format"]

\* The switch of Create on the detected format, taken when the requested
\* format is OriginalFormat.
ResolveFormatKeep(outFormat, format) ==
    IF outFormat = OriginalFormat
    THEN CASE format = formatJPG -> [outFormat |-> JPG, err |-> ""]
           [] format = formatPNG -> [outFormat |-> PNG, err |-> ""]
           [] OTHER -> [outFormat |-> outFormat, err |-> ""]
    ELSE [outFormat |-> outFormat, err |-> ""]

ResolveFormat(outFormat, format) ==
    IF outFormat = OriginalFormat
    THEN CASE format = formatJPG -> [outFormat |-> JPG, err |-> ""]
           [] format = formatPNG -> [outFormat |-> PNG, err |-> ""]
           [] OTHER -> [outFormat |-> outFormat, err |-> "format"]
    ELSE [outFormat |-> outFormat, err |-> ""]

\* for _, option := range t.options { option(&t) }
RECURSIVE ApplyOptions(_, _)
ApplyOptions(options, t) ==
    IF Len(options) = 0 THEN t
    ELSE ApplyOptions(Tail(options), ApplyOption(Head(options), t))

\* Create on the receiver value t0 with the heap h.  The record holds the
\* two return values, the working copy t as the call leaves it, and the
\* locals the call went through: the options it ran, the steps it reached,
\* the requested, detected and resolved formats and the computed size.
Create(t0, h) ==
    LET ran  == SliceElems(t0.options, h)
        t1   == ApplyOptions(ran, t0)
        dec  == Decode(t1.img)
        res  == ResolveFormat(t1.outFormat, dec.format)
        t2   == [t1 EXCEPT !.outFormat = res.outFormat]
        dims == scaleDimensions(t2.maxSize, dec.w, dec.h)
        rect == Rect(dims[1], dims[2])
        enc  == encode(t2, rect)
        base == [done |-> TRUE, ran |-> ran, requested |-> t1.outFormat,
                 detected |-> dec.format, maxSize |-> t1.maxSize,
                 srcW |-> dec.w, srcH |-> dec.h]
    IN  IF ~dec.ok
        THEN base @@ [bytes |-> NilBytes, err |-> "decode", t |-> t1,
                      steps |-> <<"options", "decode">>,
                      resolved |-> t1.outFormat, newWidth |-> 0, newHeight |-> 0]
        ELSE IF res.err # ""
        THEN base @@ [bytes |-> NilBytes, err |-> res.err, t |-> t1,
                      steps |-> <<"options", "decode", "resolve">>,
                      resolved |-> t1.outFormat, newWidth |-> 0, newHeight |-> 0]
        ELSE base @@ [bytes |-> enc.bytes, err |-> enc.err, t |-> t2,
                      steps |-> <<"options", "decode", "resolve", "scale",
                                  "resample", "encode">>,
                      resolved |-> t2.outFormat,
                      newWidth |-> dims[1], newHeight |-> dims[2]]

\* Create has a value receiver: the caller's Thumbnailer is not the working
\* copy, and keeps its value whatever the call did to the copy.
ReceiverPointer(caller, work) == work

Receiver(caller, work) == caller

(***************************************************************************)
(* State of the library model.                                             *)
(***************************************************************************)
\* The builder variables of the calling program: a template and two
\* variables for values derived from it (b, b1 and b2 of b1 := b.With(o1),
\* b2 := b.With(o2)).
BuilderVars == {1, 2, 3}

\* The zero value of the struct: a builder variable not assigned yet.
ZeroThumbnailer ==
    [scaler |-> 0, img |-> NoBytes, options |-> NilSlice, maxSize |-> 0,
     jpgQuality |-> 0, outFormat |-> OriginalFormat]

NoResult ==
    [done |-> FALSE, ran |-> <<>>, requested |-> OriginalFormat, detected |-> "",
     maxSize |-> 0, srcW |-> 0, srcH |-> 0, bytes |-> NilBytes, err |-> "",
     t |-> ZeroThumbnailer, steps |-> <<>>, resolved |-> OriginalFormat,
     newWidth |-> 0, newHeight |-> 0]

NoOp == [op |-> "none", src |-> 0, dst |-> 0]

IdleScale ==
    /\ sdIn = [maxSize |-> 0, width |-> 0, height |-> 0]
    /\ sdOut = [done |-> FALSE, newWidth |-> 0, newHeight |-> 0]

IdleLibrary ==
    /\ live = {}
    /\ builders = [b \in BuilderVars |-> ZeroThumbnailer]
    /\ heap = <<>>
    /\ logical = [b \in BuilderVars |-> <<>>]
    /\ results = [b \in BuilderVars |-> NoResult]
    /\ lastOp = NoOp

libVars == <<live, builders, heap, logical, results, lastOp>>

scaleVars == <<sdIn, sdOut>>

\* Sequences over S of length at most n.
SeqsUpTo(S, n) == UNION {[1..k -> S] : k \in 0..n}

(***************************************************************************)
(* Library calls of the calling program.                                   *)
(***************************************************************************)
\* dst := New(options...)
NewOp(dst, options) ==
    /\ dst \notin live
    /\ LET n == New(options, heap)
       IN  /\ builders' = [builders EXCEPT ![dst] = n.t]
           /\ heap' = n.heap
    /\ live' = live \cup {dst}
    /\ logical' = [logical EXCEPT ![dst] = options]
    /\ results' = [results EXCEPT ![dst] = NoResult]
    /\ lastOp' = [op |-> "New", src |-> 0, dst |-> dst]
    /\ UNCHANGED <<scaleVars, cli>>

\* dst := src.With(o), where dst is src itself or a fresh variable
WithOp(src, dst, o) ==
    /\ src \in live
    /\ dst = src \/ dst \notin live
    /\ LET w == With(builders[src], o, heap)
       IN  /\ builders' = [builders EXCEPT ![dst] = w.t]
           /\ heap' = w.heap
    /\ live' = live \cup {dst}
    /\ logical' = [logical EXCEPT ![dst] = Append(logical[src], o)]
    /\ results' = [results EXCEPT ![dst] = NoResult]
    /\ lastOp' = [op |-> "With", src |-> src, dst |-> dst]
    /\ UNCHANGED <<scaleVars, cli>>

\* _, _ = b.Create()
CreateOp(b) ==
    /\ b \in live
    /\ LET r == Create(builders[b], heap)
       IN  /\ results' = [results EXCEPT ![b] = r]
           /\ builders' = [builders EXCEPT ![b] = Receiver(builders[b], r.t)]
    /\ lastOp' = [op |-> "Create", src |-> b, dst |-> b]
    /\ UNCHANGED <<live, heap, logical, scaleVars, cli>>

(***************************************************************************)
(* The command-line tool.  cli.cfg holds the flags as cobra parsed them,   *)
(* cli.dir what os.Stat finds at the output directory, cli.mkdirOk whether *)
(* os.MkdirAll would succeed there; cli.pc is the position in main.        *)
(***************************************************************************)
ScalerNames == {"NearestNeighbor", "ApproxBiLinear", "BiLinear", "CatmullRom"}

OutFormatNames == {"original", "jpeg", "jpg", "png"}

Validate(c) ==
    IF c.OutFormat \notin OutFormatNames THEN "invalid output format"
    ELSE IF c.OutputDir = "" /\ c.OutputPrefix = ""
    THEN "at least one of output path and output prefix must be set"
    ELSE IF c.MaxSize < 1 THEN "max-size must be at least 1"
    ELSE IF c.Quality < 0 \/ c.Quality > 100
    THEN "jpg quality must be between 0 and 100"
    ELSE IF c.Scaler \notin ScalerNames THEN "invalid scaler"
    ELSE ""

Configs ==
    [InputFiles : 1..MaxFiles,
     OutputDir : {"", "out"},
     OutputPrefix : {"", "t_"},
     OutFormat : {"original", "jpg", "bmp"},
     MaxSize : {0, DefaultMaxSize},
     Quality : {DefaultQuality, 101},
     Scaler : {"ApproxBiLinear", "Lanczos"},
     Force : BOOLEAN]

IdleCli ==
    [pc |-> "idle",
     cfg |-> [InputFiles |-> 0, OutputDir |-> "", OutputPrefix |-> "",
              OutFormat |-> "", MaxSize |-> 0, Quality |-> 0, Scaler |-> "",
              Force |-> FALSE],
     dir |-> "absent", mkdirOk |-> FALSE, validated |-> FALSE, verr |-> "",
     file |-> 0, read |-> 0, written |-> 0, last |-> ""]

CliInit ==
    \E c \in Configs, d \in {"absent", "dir", "file", "denied"}, m \in BOOLEAN :
        /\ c.OutputDir = "" => d = "absent" /\ ~m
        /\ cli = [IdleCli EXCEPT !.pc = "prerun", !.cfg = c, !.dir = d,
                                 !.mkdirOk = m, !.file = 1]

\* rootCmd.PreRunE
PreRunE ==
    /\ cli.pc = "prerun"
    /\ cli' =
         IF cli.cfg.OutputDir # "" /\ cli.dir = "absent"
         THEN IF cli.mkdirOk
              THEN [cli EXCEPT !.pc = "run", !.dir = "dir"]
              ELSE [cli EXCEPT !.pc = "exit1", !.last = "mkdir"]
         ELSE IF cli.cfg.OutputDir # "" /\ cli.dir = "denied"
         THEN [cli EXCEPT !.pc = "exit1", !.last = "stat"]
         ELSE IF cli.cfg.OutputDir # "" /\ cli.dir = "file"
         THEN [cli EXCEPT !.pc = "exit1", !.last = "not a directory"]
         ELSE LET e == Validate(cli.cfg)
              IN  [cli EXCEPT !.validated = TRUE, !.verr = e,
                              !.pc = IF e = "" THEN "run" ELSE "exit1",
                              !.last = IF e = "" THEN "" ELSE "validate"]
    /\ UNCHANGED <<scaleVars, libVars>>

\* One iteration of the loop of execute over c.InputFiles.  The outcome is
\* the place where the iteration stops; the file is read from "skip" on.
\* With a scaler name that is not in Scalers the builder holds a nil scaler
\* and Create cannot get past the resampling step.
FileOutcomes(c) ==
    {"stat failed", "read failed", "create failed"}
        \cup (IF c.Force THEN {} ELSE {"output stat failed", "skip"})
        \cup (IF c.Scaler \in ScalerNames THEN {"write failed", "written"}
                                          ELSE {"nil scaler"})

FileWasRead(outcome) == outcome \notin {"stat failed", "read failed"}

executeFile ==
    /\ cli.pc = "run"
    /\ cli.file <= cli.cfg.InputFiles
    /\ \E outcome \in FileOutcomes(cli.cfg) :
         cli' = [cli EXCEPT
                   !.read = IF FileWasRead(outcome) THEN @ + 1 ELSE @,
                   !.written = IF outcome = "written" THEN @ + 1 ELSE @,
                   !.file = @ + 1,
                   !.last = outcome,
                   !.pc = IF outcome \in {"skip", "written"} THEN "run"
                          ELSE "exit1"]
    /\ UNCHANGED <<scaleVars, libVars>>

\* execute returns nil after the last file and main returns.
executeReturn ==
    /\ cli.pc = "run"
    /\ cli.file > cli.cfg.InputFiles
    /\ cli' = [cli EXCEPT !.pc = "exit0"]
    /\ UNCHANGED <<scaleVars, libVars>>

(***************************************************************************)
(* A call of scaleDimensions on arguments drawn from the bounded ranges.   *)
(***************************************************************************)
ScaleInit ==
    /\ sdIn \in [maxSize : (-MaxDim)..MaxDim, width : 1..MaxDim, height : 1..MaxDim]
    /\ sdOut = [done |-> FALSE, newWidth |-> 0, newHeight |-> 0]

ScaleCall ==
    /\ ~sdOut.done
    /\ LET d == scaleDimensions(sdIn.maxSize, sdIn.width, sdIn.height)
       IN  sdOut' = [done |-> TRUE, newWidth |-> d[1], newHeight |-> d[2]]
    /\ UNCHANGED <<sdIn, libVars, cli>>

(***************************************************************************)
(* Option sets of the two library models.                                  *)
(***************************************************************************)
BuilderOptions == {Image(2), MaxSize(2), OutFormat(JPG)}

PipelineOptions ==
    {Image(v) : v \in SourceIds} \cup {MaxSize(v) : v \in {-2, 0, 2}}
        \cup {OutFormat(v) : v \in 0..3} \cup {Quality(20), Scaler(1)}

(***************************************************************************)
(* Specifications.                                                         *)
(*   Spec        builders made by New and With in any order over shared    *)
(*               backing arrays, and Create on them                        *)
(*   SpecCreate  a template made by New over the full option set, builders *)
(*               derived from it by With(Image(data)) as execute does for  *)
(*               each input file, and Create on each                       *)
(*   SpecScale   one scaleDimensions call                                  *)
(*   SpecCLI     one run of the command-line tool                          *)
(***************************************************************************)
Init == IdleScale /\ IdleLibrary /\ cli = IdleCli

\* The builder model stops allocating after MaxArrays arrays and stops
\* appending at MaxOpts options.
Next ==
    \/ \E dst \in BuilderVars, options \in SeqsUpTo(BuilderOptions, MaxNewOpts) :
          /\ Len(options) = 0 \/ Len(heap) < MaxArrays
          /\ NewOp(dst, options)
    \/ \E src \in BuilderVars, dst \in BuilderVars, o \in BuilderOptions :
          /\ builders[src].options.len < MaxOpts
          /\ builders[src].options.len < builders[src].options.cap
                \/ Len(heap) < MaxArrays
          /\ WithOp(src, dst, o)
    \/ \E b \in BuilderVars : CreateOp(b)

Spec == Init /\ [][Next]_vars

InitCreate ==
    /\ IdleScale
    /\ cli = IdleCli
    /\ \E options \in SeqsUpTo(PipelineOptions, MaxTemplateOpts) :
          LET n == New(options, <<>>)
          IN  /\ live = {1}
              /\ builders = [b \in BuilderVars |->
                               IF b = 1 THEN n.t ELSE ZeroThumbnailer]
              /\ heap = n.heap
              /\ logical = [b \in BuilderVars |-> IF b = 1 THEN options ELSE <<>>]
              /\ results = [b \in BuilderVars |-> NoResult]
              /\ lastOp = [op |-> "New", src |-> 0, dst |-> 1]

NextCreate ==
    \/ \E dst \in BuilderVars \ {1}, value \in SourceIds :
          dst \notin live /\ WithOp(1, dst, Image(value))
    \/ \E b \in BuilderVars : CreateOp(b)

SpecCreate == InitCreate /\ [][NextCreate]_vars

InitScale == ScaleInit /\ IdleLibrary /\ cli = IdleCli

NextScale == ScaleCall

SpecScale == InitScale /\ [][NextScale]_vars

InitCLI == IdleScale /\ IdleLibrary /\ CliInit

NextCLI == PreRunE \/ executeFile \/ executeReturn

SpecCLI == InitCLI /\ [][NextCLI]_vars

(***************************************************************************)
(* Properties of scaleDimensions (SpecScale).                              *)
(***************************************************************************)
ValidScaleCall ==
    sdOut.done /\ sdIn.maxSize >= 1 /\ sdIn.width > 0 /\ sdIn.height > 0

LongSide == IF sdIn.width >= sdIn.height THEN sdIn.width ELSE sdIn.height

\* C1: for width > 0, height > 0 and maxSize >= 1 both returned dimensions
\* are at most maxSize.
C1_BoundRespected ==
    ValidScaleCall =>
        sdOut.newWidth <= sdIn.maxSize /\ sdOut.newHeight <= sdIn.maxSize

\* C1 witness: a call that had to shrink an image too large on both sides.
C1_Witness ==
    /\ ValidScaleCall
    /\ sdIn.width > sdIn.maxSize /\ sdIn.height > sdIn.maxSize
    /\ sdIn.width # sdIn.height
    /\ sdOut.newWidth < sdIn.width

\* C2 as stated: the new height is not zero and the aspect ratios differ by
\* at most 1e-3, |width/height - newWidth/newHeight| <= 1/1000.
C2_AspectRatioWithin1e3 ==
    ValidScaleCall =>
        /\ sdOut.newHeight # 0
        /\ 1000 * Abs(sdIn.width * sdOut.newHeight - sdOut.newWidth * sdIn.height)
              <= sdIn.height * sdOut.newHeight

\* C2 amended: the ratio is kept up to integer rounding only.  When the
\* image fits the ratio is exact; otherwise the scale is maxSize/LongSide and
\* each returned dimension is within 1/2 of the exactly scaled one.
C2_RatioUpToRounding ==
    ValidScaleCall =>
        IF LongSide <= sdIn.maxSize
        THEN sdOut.newWidth * sdIn.height = sdIn.width * sdOut.newHeight
        ELSE /\ 2 * Abs(sdOut.newWidth * LongSide - sdIn.width * sdIn.maxSize)
                  <= LongSide
             /\ 2 * Abs(sdOut.newHeight * LongSide - sdIn.height * sdIn.maxSize)
                  <= LongSide

\* C2 witness: a shrinking call whose result is off the original ratio by
\* more than 1e-3, or has an empty side.
C2_Witness ==
    /\ ValidScaleCall
    /\ LongSide > sdIn.maxSize
    /\ \/ sdOut.newHeight = 0
       \/ 1000 * Abs(sdIn.width * sdOut.newHeight - sdOut.newWidth * sdIn.height)
              > sdIn.height * sdOut.newHeight

\* C9: when both dimensions are already at most maxSize the call returns
\* exactly (width, height).
C9_NoOpScaling ==
    ValidScaleCall /\ sdIn.width <= sdIn.maxSize /\ sdIn.height <= sdIn.maxSize
        => sdOut.newWidth = sdIn.width /\ sdOut.newHeight = sdIn.height

\* C9 witness: a call on an image strictly smaller than the bound.
C9_Witness ==
    /\ ValidScaleCall
    /\ sdIn.width < sdIn.maxSize /\ sdIn.height < sdIn.maxSize
    /\ sdIn.width # sdIn.height
    /\ sdOut.newWidth = sdIn.width

(***************************************************************************)
(* Properties of the builder (Spec).                                       *)
(***************************************************************************)
Range(f) == {f[i] : i \in DOMAIN f}

\* The value the last option of a kind sets, or the default.
RECURSIVE LastValue(_, _, _)
LastValue(options, kind, default) ==
    IF Len(options) = 0 THEN default
    ELSE IF options[Len(options)].kind = kind THEN options[Len(options)].val
    ELSE LastValue(SubSeq(options, 1, Len(options) - 1), kind, default)

\* C3: With on one builder never changes another: the option list every
\* builder shows is the list it was built with by New and With.
C3_NoSiblingCorruption ==
    \A b \in live : SliceElems(builders[b].options, heap) = logical[b]

\* C6: Create runs the options of New, then those of With, in order and once
\* each, so each setting has the value of the last option for it or its
\* default; until Create runs the builder's own fields hold the defaults.
C6_OptionsInOrderOnce ==
    \A b \in live :
        /\ builders[b] = [New(<<>>, <<>>).t EXCEPT !.options = builders[b].options]
        /\ results[b].done =>
              /\ results[b].ran = logical[b]
              /\ results[b].maxSize = LastValue(logical[b], "MaxSize", DefaultMaxSize)
              /\ results[b].requested
                    = LastValue(logical[b], "OutFormat", OriginalFormat)
              /\ results[b].t.img = LastValue(logical[b], "Image", NoBytes)
              /\ results[b].t.jpgQuality
                    = LastValue(logical[b], "Quality", DefaultQuality)
              /\ results[b].t.scaler = LastValue(logical[b], "Scaler", ApproxBiLinear)

(***************************************************************************)
(* Properties of Create (SpecCreate).                                      *)
(***************************************************************************)
\* C4: a Create call leaves the builder it is called on, and every other
\* builder and option list, as they were, and the format it resolves is the
\* one its own option list and source determine.
C4_CreateLeavesBuilder ==
    [][lastOp'.op = "Create" =>
          LET b == lastOp'.src
              options == SliceElems(builders[b].options, heap)
              source == Decode(LastValue(options, "Image", NoBytes))
              asked == LastValue(options, "OutFormat", OriginalFormat)
          IN  /\ builders' = builders
              /\ heap' = heap
              /\ source.ok /\ results'[b].err = "" =>
                    results'[b].bytes.format =
                        IF asked # OriginalFormat THEN asked
                        ELSE IF source.format = formatJPG THEN JPG ELSE PNG
      ]_vars

\* C4 witness: a template without a format option was used for a PNG source
\* and then for a JPEG source, and each call resolved its own format.
C4_Witness ==
    /\ {1, 2, 3} \subseteq live
    /\ LastValue(logical[1], "OutFormat", OriginalFormat) = OriginalFormat
    /\ results[2].done /\ results[2].detected = formatPNG
    /\ results[2].bytes.format = PNG
    /\ results[3].done /\ results[3].detected = formatJPG
    /\ results[3].bytes.format = JPG
    /\ lastOp = [op |-> "Create", src |-> 3, dst |-> 3]

\* C5: the format handed to the encoder is never OriginalFormat.  A requested
\* JPG or PNG is used whatever the source is; OriginalFormat becomes the
\* format of a JPEG or PNG source, and with any other source the call fails
\* with the format error before the encode step.
C5_ResolvedNeverOriginal ==
    \A b \in live : results[b].done =>
        LET r == results[b]
            decoded == "resolve" \in Range(r.steps)
        IN  /\ "encode" \in Range(r.steps) => r.resolved \in {JPG, PNG}
            /\ r.err # "unexpected output format"
            /\ r.bytes # NilBytes => r.bytes.format = r.resolved
            /\ decoded /\ r.requested \in {JPG, PNG} =>
                  r.resolved = r.requested /\ "encode" \in Range(r.steps)
            /\ decoded /\ r.requested = OriginalFormat /\ r.detected = formatJPG =>
                  r.resolved = JPG /\ "encode" \in Range(r.steps)
            /\ decoded /\ r.requested = OriginalFormat /\ r.detected = formatPNG =>
                  r.resolved = PNG /\ "encode" \in Range(r.steps)
            /\ decoded /\ r.requested = OriginalFormat
                  /\ r.detected \notin {formatJPG, formatPNG} =>
                  /\ r.err = "format"
                  /\ r.bytes = NilBytes
                  /\ "encode" \notin Range(r.steps)

\* C5 witness: with the original format requested, one Create on a source
\* of a third format failed and one on a JPEG source encoded a JPG.
C5_Witness ==
    \E b \in live, c \in live :
        /\ results[b].done /\ results[b].requested = OriginalFormat
        /\ results[b].detected = "gif" /\ results[b].err = "format"
        /\ results[c].done /\ results[c].requested = OriginalFormat
        /\ results[c].detected = formatJPG /\ results[c].bytes.format = JPG

C10_InvalidMaxSizeFails ==
    \A b \in live : results[b].done /\ results[b].maxSize < 1 =>
        results[b].err # "" /\ results[b].bytes = NilBytes

(***************************************************************************)
(* Properties of the command-line tool (SpecCLI).                          *)
(***************************************************************************)
\* C8: no input file is read unless Validate has run and returned no error.
C8_ValidateBeforeFiles ==
    cli.read > 0 => cli.validated /\ cli.verr = ""

====
